---- MODULE Spec2Model ----
(***************************************************************************)
(* Telegram-to-X poster (src/index.js): the batch scanner with its cursor, *)
(* the processed / failed state store and the one-video-per-run loop of    *)
(* run(), as a state machine over serialized runs of the process.          *)
(*                                                                         *)
(* A JavaScript Set is modelled as a sequence without repetitions (a Set   *)
(* iterates in insertion order); a JSON array on disk is a sequence.  A    *)
(* message string that the code probes with includes() is a sequence of    *)
(* phrases.  The lastUpdated / timestamp fields (wall-clock time) are left *)
(* out of the records: no branch of the code reads them.                   *)
(***************************************************************************)
EXTENDS Integers, Sequences, FiniteSets, TLC

\* ------------------------------------------------------------- bounds
\* message ids 1..MaxLow and batchSize+1..batchSize+MaxHigh may be appended
MaxLow == 2
MaxHigh == 1
\* crashes and failing writes per behaviour
MaxFaults == 1
\* the cursor is followed up to MaxBatches pages
MaxBatches == 2
\* processes started per behaviour
MaxRuns == 4
\* entries of a state file found at the first start
MaxEntries == 2
MaxCaption == 283     \* longest rewritten caption handed to uploadToTwitter

\* ---------------------------------------------------- program constants
batchSize == 50
maxVideosPerRunTwo == 1 + 1
maxVideosPerRun == 1
maxVideoSizeMB == 50
BytesPerMB == 1024 * 1024

\* ------------------------------------------------------------ helpers
Range(s) == {s[i] : i \in 1..Len(s)}

Min(S) == CHOOSE x \in S : \A y \in S : x <= y

Max(S) == CHOOSE x \in S : \A y \in S : y <= x

\* Set.prototype.add
SetAdd(set, x) == IF x \in Range(set) THEN set ELSE Append(set, x)

\* new Set(array): insertion order, later repetitions dropped
NewSet(arr) ==
  LET firsts == {i \in 1..Len(arr) : \A j \in 1..(i - 1) : arr[j] # arr[i]}
      nth(k) == CHOOSE i \in firsts : Cardinality({j \in firsts : j < i}) = k - 1
  IN [k \in 1..Cardinality(firsts) |-> arr[nth(k)]]

\* String.prototype.includes on a message given as its phrases
Includes(message, phrase) == \E i \in 1..Len(message) : message[i] = phrase

\* ------------------------------------------------------ the message source
\* The message with a given id, as the source returns it: immutable once read.
\* Ids 2, 52, ... carry a 60 MB video, the others a small one.
MessageOf(id) ==
  [id |-> id,
   peerId |-> [channelId |-> 77, chatId |-> 0, userId |-> 0],
   date |-> 1000 + 10 * id,
   video |-> [size |-> IF id % batchSize = 2 THEN 60 * BytesPerMB ELSE 1000 + id,
              duration |-> id % 3]]

\* generateVideoId without the "unknown" of line 273
generateVideoIdNoSentinel(message) ==
  LET peerId == IF message.peerId.channelId # 0 THEN ToString(message.peerId.channelId)
                ELSE IF message.peerId.chatId # 0 THEN ToString(message.peerId.chatId)
                ELSE ToString(message.peerId.userId)
      videoSize == IF message.video.size # 0 THEN message.video.size ELSE 0
      videoDuration == IF message.video.duration # 0 THEN message.video.duration ELSE 0
  IN peerId \o "_" \o ToString(message.id) \o "_" \o ToString(message.date)
       \o "_" \o ToString(videoSize) \o "_" \o ToString(videoDuration)

\* generateVideoId with the parts of line 281 joined without "_"
generateVideoIdUnseparated(message) ==
  LET peerId == IF message.peerId.channelId # 0 THEN ToString(message.peerId.channelId)
                ELSE IF message.peerId.chatId # 0 THEN ToString(message.peerId.chatId)
                ELSE IF message.peerId.userId # 0 THEN ToString(message.peerId.userId)
                ELSE "unknown"
      videoSize == IF message.video.size # 0 THEN message.video.size ELSE 0
      videoDuration == IF message.video.duration # 0 THEN message.video.duration ELSE 0
  IN peerId \o ToString(message.id) \o ToString(message.date)
       \o ToString(videoSize) \o ToString(videoDuration)

\* generateVideoId: `a || b` takes b when a is missing or 0
generateVideoId(message) ==
  LET peerId == IF message.peerId.channelId # 0 THEN ToString(message.peerId.channelId)
                ELSE IF message.peerId.chatId # 0 THEN ToString(message.peerId.chatId)
                ELSE IF message.peerId.userId # 0 THEN ToString(message.peerId.userId)
                ELSE "unknown"
      videoSize == IF message.video.size # 0 THEN message.video.size ELSE 0
      videoDuration == IF message.video.duration # 0 THEN message.video.duration ELSE 0
  IN peerId \o "_" \o ToString(message.id) \o "_" \o ToString(message.date)
       \o "_" \o ToString(videoSize) \o "_" \o ToString(videoDuration)

VideoIdOf(id) == generateVideoId(MessageOf(id))

\* ------------------------------------------------------------ the files
\* A state file: missing, unreadable (not JSON), the legacy bare array, or
\* the object with metadata.
MissingFile == [shape |-> "missing", videos |-> <<>>, offset |-> 0]

CorruptFile == [shape |-> "corrupt", videos |-> <<>>, offset |-> 0]

ArrayFile(videos) == [shape |-> "array", videos |-> videos, offset |-> 0]

VideosFile(videos) == [shape |-> "object", videos |-> videos, offset |-> 0]

OffsetFile(offset) == [shape |-> "object", videos |-> <<>>, offset |-> offset]

\* fs.writeFileSync(file, text): the outcome is one of
\*   "ok"    the file holds the new text;
\*   "fail"  it throws before the file is opened for writing (EACCES);
\*   "torn"  it throws after the file was truncated (ENOSPC, EIO): the file
\*           is left without parseable JSON.
WriteOutcomes == {"ok", "fail", "torn"}

writeFileSync(old, new, outcome) ==
  CASE outcome = "ok" -> new
    [] outcome = "fail" -> old
    [] outcome = "torn" -> CorruptFile

\* loadProcessedVideos without the branch for the object with metadata
loadProcessedArrayOnly(file) ==
  IF file.shape = "array" THEN NewSet(file.videos) ELSE <<>>

\* Array.isArray(data) ? new Set(data) : new Set(data.videos || []); a
\* missing file, or a throwing JSON.parse, gives the empty set
loadProcessedVideos(file) ==
  IF file.shape \in {"array", "object"} THEN NewSet(file.videos) ELSE <<>>

\* loadFailedVideos without the branch for the bare array
loadFailedObjectOnly(file) ==
  IF file.shape = "object" THEN NewSet(file.videos) ELSE <<>>

loadFailedVideos(file) ==
  IF file.shape \in {"array", "object"} THEN NewSet(file.videos) ELSE <<>>

loadOffset(file) ==
  IF file.shape = "object" THEN file.offset ELSE 0

\* saveOffset with the assignment of line 187 moved before the write
saveOffsetEager(current, newOffset, outcome) == newOffset

\* saveOffset, line 187: this.currentOffset after the call; the assignment
\* follows the write inside the try block
saveOffsetMemory(current, newOffset, outcome) ==
  IF outcome = "ok" THEN newOffset ELSE current

\* ----------------------------------------------------- failure records
\* An entry of failedVideos: the JSON text of {videoId, reason, timestamp,
\* error} (json: TRUE), or a legacy bare identifier (json: FALSE, the
\* videoId field holds the text of the entry).
FailureRecord(videoId, reason, error) ==
  [json |-> TRUE, videoId |-> videoId, reason |-> reason, error |-> error.message]

LegacyEntry(text) ==
  [json |-> FALSE, videoId |-> text, reason |-> "", error |-> <<>>]

\* the bare texts that are JSON themselves: message ids written as numbers
Numerals == {ToString(n) : n \in 0..(2 * batchSize)}

\* JSON.parse(failedRecord): an object for a record, a number for a bare
\* numeral; it throws on any other bare text
JSONparse(entry) ==
  IF entry.json THEN "object"
  ELSE IF entry.videoId \in Numerals THEN "number"
  ELSE "throws"

\* isVideoFailed without the catch branch for bare identifiers
isVideoFailedRecordsOnly(videoId, failed) ==
  \E i \in 1..Len(failed) :
    JSONparse(failed[i]) = "object" /\ failed[i].videoId = videoId

\* isVideoFailed: record.videoId === videoId when JSON.parse returns (the
\* videoId of a number is undefined), failedRecord === videoId when it throws
isVideoFailed(videoId, failed) ==
  \E i \in 1..Len(failed) :
    CASE JSONparse(failed[i]) = "object" -> failed[i].videoId = videoId
      [] JSONparse(failed[i]) = "number" -> FALSE
      [] JSONparse(failed[i]) = "throws" -> failed[i].videoId = videoId

\* ------------------------------------------------------------- errors
NoError == [message |-> <<>>, code |-> 0]

\* what uploadToTwitter throws (code 0: the error carries no code)
UploadErrors ==
  {[message |-> <<"Invalid media:", "video longer than", "140 seconds">>, code |-> 400],
   [message |-> <<"Service Unavailable">>, code |-> 503]}

TooLargeError ==
  [message |-> <<"Video ", "too large", ": 60.00MB (max: 50MB)">>, code |-> 0]

DownloadErrors == {[message |-> <<"Connection closed">>, code |-> 0]}

\* the phrases the classification looks for in error.message
Phrases == <<"video longer than", "Forbidden", "too large", "file size", "format", "codec">>

\* error.code values: 0 stands for an error without a code
Codes == {0, 403, 404, 429, 503}

\* every error the inner catch of run() may hold: any combination of the
\* phrases in its message with any code
AnyErrors ==
  {[message |-> SelectSeq(Phrases, LAMBDA p : p \in S), code |-> c] :
     S \in SUBSET Range(Phrases), c \in Codes}

\* lines 730-756 with the size test moved above the forbidden test
failureReasonSizeFirst(uploadError) ==
  IF Includes(uploadError.message, "video longer than") THEN "Video too long (>2 minutes)"
  ELSE IF Includes(uploadError.message, "too large")
          \/ Includes(uploadError.message, "file size")
    THEN "Video file too large"
  ELSE IF Includes(uploadError.message, "Forbidden") \/ uploadError.code = 403
    THEN "Twitter API forbidden (video restrictions)"
  ELSE IF Includes(uploadError.message, "format") \/ Includes(uploadError.message, "codec")
    THEN "Unsupported video format"
  ELSE IF uploadError.code = 429 THEN "Rate limit exceeded"
  ELSE IF uploadError.code >= 400 /\ uploadError.code < 500
    THEN "Client error: " \o ToString(uploadError.code)
  ELSE IF uploadError.code >= 500 THEN "Server error: " \o ToString(uploadError.code)
  ELSE "Unknown upload error"

\* run(), lines 730-756: the failure reason of a caught error
failureReason(uploadError) ==
  IF Includes(uploadError.message, "video longer than") THEN "Video too long (>2 minutes)"
  ELSE IF Includes(uploadError.message, "Forbidden") \/ uploadError.code = 403
    THEN "Twitter API forbidden (video restrictions)"
  ELSE IF Includes(uploadError.message, "too large")
          \/ Includes(uploadError.message, "file size")
    THEN "Video file too large"
  ELSE IF Includes(uploadError.message, "format") \/ Includes(uploadError.message, "codec")
    THEN "Unsupported video format"
  ELSE IF uploadError.code = 429 THEN "Rate limit exceeded"
  ELSE IF uploadError.code >= 400 /\ uploadError.code < 500
    THEN "Client error: " \o ToString(uploadError.code)
  ELSE IF uploadError.code >= 500 THEN "Server error: " \o ToString(uploadError.code)
  ELSE "Unknown upload error"

\* ------------------------------------------------------------- texts
\* A text (message text, AI response, caption) is the sequence of its
\* characters.
\* String.prototype.trim
trim(t) ==
  LET nonblank == {i \in 1..Len(t) : t[i] # " "}
  IN IF nonblank = {} THEN <<>> ELSE SubSeq(t, Min(nonblank), Max(nonblank))

startsWith(t, c) == Len(t) > 0 /\ t[1] = c

endsWith(t, c) == Len(t) > 0 /\ t[Len(t)] = c

\* t.slice(1, -1)
slice(t) == SubSeq(t, 2, Len(t) - 1)

\* t.includes(u)
includes(t, u) ==
  \E i \in 0..(Len(t) - Len(u)) : SubSeq(t, i + 1, i + Len(u)) = u

\* t.substring(0, n)
substring(t, n) == SubSeq(t, 1, IF n < Len(t) THEN n ELSE Len(t))

\* lines 482-487 (and 564-569): surrounding quotes of one kind are removed
stripQuotes(response) ==
  IF \/ startsWith(response, "\"") /\ endsWith(response, "\"")
     \/ startsWith(response, "'") /\ endsWith(response, "'")
    THEN trim(slice(response))
    ELSE response

NONE == <<"N", "O", "N", "E">>

\* ------------------------------------------------------ caption resolver
\* a message the source does not have (getMessages yields undefined for it)
Null == [id |-> 0, message |-> <<>>, senderId |-> 0, date |-> 0]

\* lines 372-378: the ids extractVideoCaption asks for
messageIds(id) == <<id - 2, id - 1, id, id + 1, id + 2>>

\* lines 389-404: filter and map
contextFiltered(video, surroundingMessages) ==
  LET kept == SelectSeq(surroundingMessages,
                        LAMBDA msg : /\ msg # Null
                                     /\ msg.id # video.id
                                     /\ msg.message # <<>>
                                     /\ trim(msg.message) # <<>>)
  IN [k \in 1..Len(kept) |->
        [id |-> kept[k].id,
         text |-> trim(kept[k].message),
         senderId |-> kept[k].senderId,
         date |-> kept[k].date,
         position |-> IF kept[k].id < video.id THEN "before" ELSE "after",
         timeDiff |-> IF video.date >= kept[k].date THEN video.date - kept[k].date
                      ELSE kept[k].date - video.date]]

\* Array.prototype.sort((a, b) => a.id - b.id)
sortById(arr) ==
  LET nth(k) == CHOOSE i \in 1..Len(arr) :
                  Cardinality({j \in 1..Len(arr) :
                                 arr[j].id < arr[i].id
                                 \/ (arr[j].id = arr[i].id /\ j < i)}) = k - 1
  IN [k \in 1..Len(arr) |-> arr[nth(k)]]

\* lines 389-405 without the sort of line 405
contextMessagesUnsorted(video, surroundingMessages) ==
  contextFiltered(video, surroundingMessages)

\* lines 389-405: the context window
contextMessagesOf(video, surroundingMessages) ==
  sortById(contextFiltered(video, surroundingMessages))

\* the fallback lookup with the time test passing at 300 seconds too
fallbackCaptionUpTo300(video, context) ==
  LET found == {i \in 1..Len(context) :
                  context[i].senderId = video.senderId /\ context[i].timeDiff <= 300}
  IN IF found = {} THEN <<>> ELSE context[Min(found)].text

\* lines 511-514 and 521-524: the first entry of the same sender less than
\* 300 seconds apart
fallbackCaption(video, context) ==
  LET found == {i \in 1..Len(context) :
                  context[i].senderId = video.senderId /\ context[i].timeDiff < 300}
  IN IF found = {} THEN <<>> ELSE context[Min(found)].text

\* lines 494-499 with the test for equal texts only
matchingExactly(context, aiResponse) ==
  \E i \in 1..Len(context) : context[i].text = aiResponse

\* lines 494-499: the response matches an entry of the window
matchingMessage(context, aiResponse) ==
  \E i \in 1..Len(context) :
    \/ context[i].text = aiResponse
    \/ includes(context[i].text, aiResponse)
    \/ includes(aiResponse, context[i].text)

\* findRelevantCaption with the fallback lookup in place of the return of
\* line 490
findRelevantCaptionFallbackOnNone(video, context, completion) ==
  IF completion.throws THEN fallbackCaption(video, context)
  ELSE LET aiResponse == stripQuotes(trim(completion.content))
       IN IF aiResponse = NONE \/ aiResponse = <<>> THEN fallbackCaption(video, context)
          ELSE IF matchingMessage(context, aiResponse) THEN aiResponse
          ELSE fallbackCaption(video, context)

\* findRelevantCaption, lines 438-525, for a window that is not empty;
\* completion: what openaiClient.chat.completions.create does (it throws,
\* or answers with content)
findRelevantCaption(video, context, completion) ==
  IF completion.throws THEN fallbackCaption(video, context)
  ELSE LET aiResponse == stripQuotes(trim(completion.content))
       IN IF aiResponse = NONE \/ aiResponse = <<>> THEN <<>>
          ELSE IF matchingMessage(context, aiResponse) THEN aiResponse
          ELSE fallbackCaption(video, context)

\* findRelevantCaption reaches one of the two fallback lookups
usesFallback(context, completion) ==
  \/ completion.throws
  \/ LET aiResponse == stripQuotes(trim(completion.content))
     IN /\ aiResponse # NONE
        /\ aiResponse # <<>>
        /\ ~matchingMessage(context, aiResponse)

\* the answer of a completion call that was not made
NoCompletion == [throws |-> FALSE, content |-> <<>>]

\* "🎥 Interesting video content" (the emoji is two UTF-16 units)
InterestingVideoContent ==
  <<"U+D83C", "U+DFA5", " ", "I", "n", "t", "e", "r", "e", "s", "t", "i", "n", "g", " ",
    "v", "i", "d", "e", "o", " ", "c", "o", "n", "t", "e", "n", "t">>

\* "🎥 Video from Telegram"
VideoFromTelegram ==
  <<"U+D83C", "U+DFA5", " ", "V", "i", "d", "e", "o", " ", "f", "r", "o", "m", " ",
    "T", "e", "l", "e", "g", "r", "a", "m">>

\* rewriteCaption, lines 528-578
rewriteCaption(caption, answer) ==
  LET cleanCaption == trim(caption)
  IN IF cleanCaption = <<>> THEN InterestingVideoContent
     ELSE IF answer.throws THEN cleanCaption
     ELSE stripQuotes(trim(answer.content))

tweetLimit == 280

ellipsisAt == 277

\* uploadToTwitter, lines 636-644, without the test for a blank text
tweetTextUnchecked(caption) ==
  IF Len(caption) > tweetLimit THEN substring(caption, ellipsisAt) \o <<".", ".", ".">>
  ELSE caption

\* uploadToTwitter, lines 636-644: the text of the tweet
tweetTextOf(caption) ==
  LET truncated == IF Len(caption) > tweetLimit
                     THEN substring(caption, ellipsisAt) \o <<".", ".", ".">>
                     ELSE caption
  IN IF trim(truncated) = <<>> THEN VideoFromTelegram ELSE truncated

\* -------------------------------------------------------------- state
VARIABLES
  stream,           \* ids of the video-bearing messages of the group (append-only)
  processedFile,    \* ./processed_videos.json
  failedFile,       \* ./failed_videos.json
  offsetFile,       \* ./video_offset.json
  pc,               \* position of the running process; "idle": no process
  processedVideos,  \* this.processedVideos
  failedVideos,     \* this.failedVideos
  currentOffset,    \* this.currentOffset
  telegramClient,   \* this.telegramClient is set
  processedCount,   \* run(): processedCount
  failedCount,      \* run(): failedCount
  videoMessage,     \* run(): id of videoMessage, 0 for null
  videoPath,        \* run(): videoPath is set
  uploadError,      \* the error the inner catch of run() holds
  exitCode,         \* of the last process: -1 none yet, 0, 1, 137 killed
  disconnected,     \* telegramClient.disconnect() was called by the last process
  faults,           \* crashes and failing writes so far
  runs,             \* processes started so far
  tweets,           \* videoId -> number of tweets posted for it
  everFailed,       \* videoIds addFailedVideo was called for
  lastSelected,     \* id of the message the scanner returned last, 0 for none
  persisted,        \* the highest offset a saveOffset has written so far
  publishFailed,    \* videoIds recorded as failed after uploadToTwitter threw
  downloads,        \* downloadVideo calls of the current process
  source,           \* message id -> the message of the group with that id
  contextMessages,  \* extractVideoCaption: contextMessages
  completion,       \* findRelevantCaption: what the completion call did
  calls,            \* extractVideoCaption: the lookups it has made
  originalCaption,  \* run(): originalCaption
  rewrittenCaption, \* run(): rewrittenCaption
  tweetText,        \* uploadToTwitter: tweetText
  sample,           \* messages read twice, with the videoIds computed for them
  rival             \* a second process of the program on the same state files

disk == <<processedFile, failedFile, offsetFile>>

memory == <<processedVideos, failedVideos, currentOffset, telegramClient,
            processedCount, failedCount, videoMessage, videoPath, uploadError,
            downloads>>

history == <<tweets, everFailed, lastSelected, persisted, publishFailed>>

\* the locals of extractVideoCaption and findRelevantCaption
lookup == <<contextMessages, completion, calls>>

captions == <<originalCaption, rewrittenCaption, tweetText>>

vars == <<stream, source, sample, rival, disk, pc, memory, lookup, captions, exitCode, disconnected,
          faults, runs, history>>

\* ------------------------------------------------------- batch scanner
\* the messages iterMessages yields for {reverse: true, limit: batchSize,
\* offsetId}: the batchSize oldest videos with an id above offsetId (an
\* undefined offsetId starts at the beginning)
iterMessages(videos, offsetId) ==
  LET later == {id \in videos : id > offsetId}
  IN {id \in later : Cardinality({j \in later : j < id}) < batchSize}

\* lines 308-311 negated, without the failed-set test
skipsProcessedOnly(videoId, processed, failed) == videoId \in Range(processed)

\* lines 308-311 negated, without the processed-set test
skipsFailedOnly(videoId, processed, failed) == isVideoFailed(videoId, failed)

\* lines 308-311 negated: the scanner skips the message
skips(videoId, processed, failed) ==
  videoId \in Range(processed) \/ isVideoFailed(videoId, failed)

\* findOldestUnprocessedVideo: the id of the message returned, 0 for null
findOldestUnprocessedVideo(videos, offset, processed, failed) ==
  LET page == iterMessages(videos, offset)
      open == {id \in page : ~skips(VideoIdOf(id), processed, failed)}
  IN IF open = {} THEN 0 ELSE Min(open)

\* --------------------------------------------------------------- Init
NewIds == (1..MaxLow) \cup ((batchSize + 1)..(batchSize + MaxHigh))

\* downloadVideo, lines 589-590: the size test passes
WithinSizeLimit(id) == MessageOf(id).video.size <= maxVideoSizeMB * BytesPerMB

\* the videoIds of messages 1..n in order, without the 60 MB ones
VideoIdsUpTo(n) ==
  LET ids == SelectSeq([i \in 1..n |-> i], WithinSizeLimit)
  IN [k \in 1..Len(ids) |-> VideoIdOf(ids[k])]

\* a first installation: no state file yet, no video in the group yet
InitFresh ==
  /\ stream = {}
  /\ processedFile = MissingFile
  /\ failedFile = MissingFile
  /\ offsetFile = MissingFile
  /\ tweets = [v \in {} |-> 0]
  /\ everFailed = {}
  /\ lastSelected = 0

\* after batchSize runs on a group of batchSize videos: all posted but the
\* 60 MB one, which failed; the processed file is of the legacy shape
InitSeasoned ==
  /\ stream = 1..batchSize
  /\ processedFile = ArrayFile(VideoIdsUpTo(batchSize))
  /\ failedFile = VideosFile(<<FailureRecord(VideoIdOf(2), failureReason(TooLargeError),
                                             TooLargeError)>>)
  /\ offsetFile = MissingFile
  /\ tweets = [v \in Range(VideoIdsUpTo(batchSize)) |-> 1]
  /\ everFailed = {VideoIdOf(2)}
  /\ lastSelected = batchSize

\* the messages of the group by id, video or text: message 1 is a video
\* with a caption of its own; video batchSize + 1 has none and stands
\* between a text of another sender and a text of its own sender
GroupMessage(id) ==
  [id |-> id,
   message |-> IF id = 1 THEN <<" ", "a", " ">>
               ELSE IF id = batchSize THEN <<"b">>
               ELSE IF id = batchSize + 2 THEN <<"a", "b">>
               ELSE <<>>,
   senderId |-> IF id = batchSize THEN 8 ELSE 7,
   date |-> MessageOf(id).date]

\* no message is being fingerprinted
NoSample == [messages |-> <<>>, atScan |-> <<>>, atRecord |-> <<>>]

\* no second process was started
NoRival ==
  [pc |-> "absent", processedVideos |-> <<>>, failedVideos |-> <<>>,
   currentOffset |-> 0, videoMessage |-> 0, videoPath |-> FALSE,
   uploadError |-> NoError, runs |-> 0, overlapped |-> FALSE]

NoProcess ==
  /\ pc = "idle"
  /\ contextMessages = <<>>
  /\ completion = NoCompletion
  /\ calls = {}
  /\ originalCaption = <<>>
  /\ rewrittenCaption = <<>>
  /\ tweetText = <<>>
  /\ processedVideos = <<>>
  /\ failedVideos = <<>>
  /\ currentOffset = 0
  /\ telegramClient = FALSE
  /\ processedCount = 0
  /\ failedCount = 0
  /\ videoMessage = 0
  /\ videoPath = FALSE
  /\ uploadError = NoError
  /\ downloads = 0

Init ==
  /\ InitFresh \/ InitSeasoned
  /\ source = [id \in 1..(batchSize + MaxHigh + 2) |-> GroupMessage(id)]
  /\ sample = NoSample
  /\ rival = NoRival
  /\ NoProcess
  /\ exitCode = -1
  /\ disconnected = FALSE
  /\ faults = 0
  /\ runs = 0
  /\ persisted = 0
  /\ publishFailed = {}

\* the process is gone: its memory with it
ProcessEnds(code) ==
  /\ pc' = "idle"
  /\ contextMessages' = <<>>
  /\ completion' = NoCompletion
  /\ calls' = {}
  /\ originalCaption' = <<>>
  /\ rewrittenCaption' = <<>>
  /\ tweetText' = <<>>
  /\ processedVideos' = <<>>
  /\ failedVideos' = <<>>
  /\ currentOffset' = 0
  /\ telegramClient' = FALSE
  /\ processedCount' = 0
  /\ failedCount' = 0
  /\ videoMessage' = 0
  /\ videoPath' = FALSE
  /\ uploadError' = NoError
  /\ downloads' = 0
  /\ exitCode' = code

\* ------------------------------------------------------------ actions
\* a new video message is posted to the group; no step of a run but the
\* scan reads the group, so a post during a run is taken before or after it
AppendVideo(id) ==
  /\ pc = "idle"
  /\ id \in NewIds
  /\ \A j \in stream : j < id
  /\ stream' = stream \cup {id}
  /\ UNCHANGED <<source, rival, sample, lookup, captions, runs, disk, pc, memory, exitCode,
                 disconnected, faults, history>>

\* the constructor without the try / catch of the load functions: an
\* unreadable state file ends the run in the outer catch
BootStrict ==
  /\ pc = "idle"
  /\ pc' = IF CorruptFile \in {processedFile, failedFile, offsetFile}
            THEN "critical" ELSE "initialize"
  /\ processedVideos' = loadProcessedVideos(processedFile)
  /\ failedVideos' = loadFailedVideos(failedFile)
  /\ currentOffset' = loadOffset(offsetFile)
  /\ telegramClient' = FALSE
  /\ processedCount' = 0
  /\ failedCount' = 0
  /\ disconnected' = FALSE
  /\ exitCode' = -1
  /\ downloads' = 0
  /\ UNCHANGED <<source, rival, sample, lookup, captions, stream, disk, videoMessage, videoPath,
                 uploadError, faults, history>>

\* new TelegramToXPoster(); poster.run() up to the call of initialize()
Boot ==
  /\ pc = "idle"
  /\ pc' = "initialize"
  /\ processedVideos' = loadProcessedVideos(processedFile)
  /\ failedVideos' = loadFailedVideos(failedFile)
  /\ currentOffset' = loadOffset(offsetFile)
  /\ telegramClient' = FALSE
  /\ processedCount' = 0
  /\ failedCount' = 0
  /\ disconnected' = FALSE
  /\ exitCode' = -1
  /\ downloads' = 0
  /\ UNCHANGED <<source, rival, sample, lookup, captions, stream, disk, videoMessage, videoPath,
                 uploadError, faults, history>>

\* the scheduler starts the next run
Start ==
  /\ runs < MaxRuns
  /\ runs' = runs + 1
  /\ Boot

\* initialize() returns
Initialize ==
  /\ pc = "initialize"
  /\ telegramClient' = TRUE
  /\ pc' = "loop"
  /\ UNCHANGED <<source, rival, sample, lookup, captions, runs, stream, disk, processedVideos,
                 failedVideos, currentOffset,
                 processedCount, failedCount, videoMessage, videoPath, uploadError,
                 exitCode, disconnected, faults, history, downloads>>

\* initialize() throws: ensureDir (no client yet) or telegramClient.start
InitializeThrows(clientSet) ==
  /\ pc = "initialize"
  /\ telegramClient' = clientSet
  /\ pc' = "critical"
  /\ UNCHANGED <<source, rival, sample, lookup, captions, runs, stream, disk, processedVideos,
                 failedVideos, currentOffset,
                 processedCount, failedCount, videoMessage, videoPath, uploadError,
                 exitCode, disconnected, faults, history, downloads>>

\* the outer catch of run(): process.exit(1) ends the process at once
CriticalExit ==
  /\ pc = "critical"
  /\ ProcessEnds(1)
  /\ UNCHANGED <<source, rival, sample, runs, stream, disk, disconnected, faults, history>>

\* while (processedCount + failedCount < maxVideosPerRun)
LoopTest ==
  /\ pc = "loop"
  /\ IF processedCount + failedCount < maxVideosPerRun
       THEN /\ pc' = "find"
            /\ videoPath' = FALSE
            /\ videoMessage' = 0
       ELSE /\ pc' = "finally"
            /\ UNCHANGED <<videoPath, videoMessage>>
  /\ UNCHANGED <<source, rival, sample, lookup, captions, runs, stream, disk, processedVideos,
                 failedVideos, currentOffset,
                 telegramClient, processedCount, failedCount, uploadError,
                 exitCode, disconnected, faults, history, downloads>>

\* findOldestUnprocessedVideo rethrows an error of getEntity or iterMessages
FindThrows ==
  /\ pc = "find"
  /\ uploadError' = [message |-> <<"Connection closed">>, code |-> 0]
  /\ pc' = "catch"
  /\ UNCHANGED <<source, rival, sample, lookup, captions, runs, stream, disk, processedVideos,
                 failedVideos, currentOffset,
                 telegramClient, processedCount, failedCount, videoMessage, videoPath,
                 exitCode, disconnected, faults, history, downloads>>

\* findOldestUnprocessedVideo saving the id of the message it returns as
\* the new offset
FindReturnsAdvancing ==
  /\ pc = "find"
  /\ LET found == findOldestUnprocessedVideo(stream, currentOffset, processedVideos,
                                             failedVideos)
     IN /\ found # 0
        /\ videoMessage' = found
        /\ lastSelected' = found
        /\ currentOffset' = found
        /\ offsetFile' = OffsetFile(found)
  /\ pc' = "caption"
  /\ UNCHANGED <<source, rival, sample, lookup, captions, runs, stream, processedFile,
                 failedFile, processedVideos, failedVideos,
                 telegramClient, processedCount, failedCount, videoPath, uploadError,
                 exitCode, disconnected, faults, tweets, everFailed, persisted,
                 publishFailed, downloads>>

\* findOldestUnprocessedVideo returns a message
FindReturns ==
  /\ pc = "find"
  /\ LET found == findOldestUnprocessedVideo(stream, currentOffset, processedVideos,
                                             failedVideos)
     IN /\ found # 0
        /\ videoMessage' = found
        /\ lastSelected' = found
  /\ pc' = "caption"
  /\ UNCHANGED <<source, rival, sample, lookup, captions, runs, stream, disk, processedVideos,
                 failedVideos, currentOffset,
                 telegramClient, processedCount, failedCount, videoPath, uploadError,
                 exitCode, disconnected, faults, tweets, everFailed, persisted,
                 publishFailed, downloads>>

\* findOldestUnprocessedVideo finds the page exhausted: saveOffset, return
\* null, and run() breaks out of the loop
FindExhausted(outcome) ==
  /\ pc = "find"
  /\ findOldestUnprocessedVideo(stream, currentOffset, processedVideos, failedVideos) = 0
  /\ currentOffset + batchSize <= MaxBatches * batchSize
  /\ outcome # "ok" => faults < MaxFaults
  /\ LET newOffset == currentOffset + batchSize
     IN /\ offsetFile' = writeFileSync(offsetFile, OffsetFile(newOffset), outcome)
        /\ currentOffset' = saveOffsetMemory(currentOffset, newOffset, outcome)
        /\ persisted' = IF outcome = "ok" /\ newOffset > persisted THEN newOffset
                        ELSE persisted
  /\ faults' = IF outcome = "ok" THEN faults ELSE faults + 1
  /\ pc' = "finally"
  /\ UNCHANGED <<source, rival, sample, lookup, captions, runs, stream, processedFile, failedFile,
                 processedVideos, failedVideos,
                 telegramClient, processedCount, failedCount, videoMessage, videoPath,
                 uploadError, exitCode, disconnected, tweets, everFailed, lastSelected,
                 publishFailed, downloads>>

\* getMessages(entity, {ids}) for a message the group has or has not
At(id) == IF id \in DOMAIN source THEN source[id] ELSE Null

\* the message run() holds, with the fields the caption resolver reads
Video ==
  [id |-> videoMessage,
   message |-> At(videoMessage).message,
   senderId |-> At(videoMessage).senderId,
   date |-> MessageOf(videoMessage).date]

\* the array getMessages resolves to, in the order asked for or in the
\* opposite order
Orders == {"asked", "opposite"}

getMessages(ids, order) ==
  [k \in 1..Len(ids) |->
     At(ids[IF order = "asked" THEN k ELSE Len(ids) + 1 - k])]

\* lines 361-365 returning the text as it is
OwnCaptionUntrimmed ==
  /\ pc = "caption"
  /\ trim(Video.message) # <<>>
  /\ originalCaption' = Video.message
  /\ pc' = "rewrite"
  /\ UNCHANGED <<runs, stream, source, rival, sample, disk, memory, lookup, rewrittenCaption, tweetText,
                 exitCode, disconnected, faults, history>>

\* extractVideoCaption, lines 361-365: the message has text of its own
OwnCaption ==
  /\ pc = "caption"
  /\ trim(Video.message) # <<>>
  /\ originalCaption' = trim(Video.message)
  /\ pc' = "rewrite"
  /\ UNCHANGED <<runs, stream, source, rival, sample, disk, memory, lookup, rewrittenCaption,
                 tweetText,
                 exitCode, disconnected, faults, history>>

\* extractVideoCaption without the try / catch of lines 368 and 429-432
FetchRethrows ==
  /\ pc = "caption"
  /\ trim(Video.message) = <<>>
  /\ calls' = calls \cup {"getMessages", "getMessages throws"}
  /\ uploadError' = [message |-> <<"Connection closed">>, code |-> 0]
  /\ pc' = "catch"
  /\ UNCHANGED <<runs, stream, source, rival, sample, disk, processedVideos, failedVideos,
                 currentOffset, telegramClient, processedCount, failedCount,
                 videoMessage, videoPath, downloads, contextMessages, completion,
                 captions, exitCode, disconnected, faults, history>>

\* extractVideoCaption, lines 429-432: getEntity or getMessages throws
FetchThrows ==
  /\ pc = "caption"
  /\ trim(Video.message) = <<>>
  /\ calls' = calls \cup {"getMessages", "getMessages throws"}
  /\ originalCaption' = <<>>
  /\ pc' = "rewrite"
  /\ UNCHANGED <<runs, stream, source, rival, sample, disk, memory, contextMessages, completion,
                 rewrittenCaption, tweetText, exitCode, disconnected, faults, history>>

\* extractVideoCaption, lines 368-410: the window is built; an empty one
\* ends the call
FetchContext(order) ==
  /\ pc = "caption"
  /\ trim(Video.message) = <<>>
  /\ calls' = calls \cup {"getMessages"}
  /\ contextMessages' =
       contextMessagesOf(Video, getMessages(messageIds(videoMessage), order))
  /\ pc' = IF contextMessages' = <<>> THEN "rewrite" ELSE "rank"
  /\ originalCaption' = <<>>
  /\ UNCHANGED <<runs, stream, source, rival, sample, disk, memory, completion, rewrittenCaption,
                 tweetText, exitCode, disconnected, faults, history>>

\* extractVideoCaption, lines 416-428: findRelevantCaption on the window
RankCaption(answer) ==
  /\ pc = "rank"
  /\ completion' = answer
  /\ calls' = calls \cup {"completions.create"}
                \cup (IF usesFallback(contextMessages, answer) THEN {"fallback"} ELSE {})
  /\ originalCaption' = findRelevantCaption(Video, contextMessages, answer)
  /\ pc' = "rewrite"
  /\ UNCHANGED <<runs, stream, source, rival, sample, disk, memory, contextMessages, rewrittenCaption,
                 tweetText, exitCode, disconnected, faults, history>>

\* run(), line 705: rewriteCaption returns (no completion call is made for
\* a blank caption); the window and the answer are gone
RewriteCaption(answer) ==
  /\ pc = "rewrite"
  /\ trim(originalCaption) = <<>> => answer = NoCompletion
  /\ rewrittenCaption' = rewriteCaption(originalCaption, answer)
  /\ contextMessages' = <<>>
  /\ completion' = NoCompletion
  /\ pc' = "download"
  /\ UNCHANGED <<runs, stream, source, rival, sample, disk, memory, calls, originalCaption, tweetText,
                 exitCode, disconnected, faults, history>>

\* downloadVideo rejects the video: larger than maxVideoSizeMB
DownloadTooLarge ==
  /\ pc = "download"
  /\ ~WithinSizeLimit(videoMessage)
  /\ downloads' = downloads + 1
  /\ uploadError' = TooLargeError
  /\ pc' = "catch"
  /\ UNCHANGED <<source, rival, sample, lookup, captions, runs, stream, disk, processedVideos,
                 failedVideos, currentOffset,
                 telegramClient, processedCount, failedCount, videoMessage, videoPath,
                 exitCode, disconnected, faults, history>>

\* downloadVideo: downloadMedia throws
DownloadThrows(error) ==
  /\ pc = "download"
  /\ WithinSizeLimit(videoMessage)
  /\ downloads' = downloads + 1
  /\ uploadError' = error
  /\ pc' = "catch"
  /\ UNCHANGED <<source, rival, sample, lookup, captions, runs, stream, disk, processedVideos,
                 failedVideos, currentOffset,
                 telegramClient, processedCount, failedCount, videoMessage, videoPath,
                 exitCode, disconnected, faults, history>>

\* run() adding the videoId to processedVideos once the download returned
DownloadReturnsMarking ==
  /\ pc = "download"
  /\ WithinSizeLimit(videoMessage)
  /\ downloads' = downloads + 1
  /\ videoPath' = TRUE
  /\ processedVideos' = SetAdd(processedVideos, VideoIdOf(videoMessage))
  /\ pc' = "upload"
  /\ UNCHANGED <<source, rival, sample, lookup, captions, runs, stream, disk,
                 failedVideos, currentOffset,
                 telegramClient, processedCount, failedCount, videoMessage, uploadError,
                 exitCode, disconnected, faults, history>>

\* downloadVideo returns the path
DownloadReturns ==
  /\ pc = "download"
  /\ WithinSizeLimit(videoMessage)
  /\ downloads' = downloads + 1
  /\ videoPath' = TRUE
  /\ pc' = "upload"
  /\ UNCHANGED <<source, rival, sample, lookup, captions, runs, stream, disk, processedVideos,
                 failedVideos, currentOffset,
                 telegramClient, processedCount, failedCount, videoMessage, uploadError,
                 exitCode, disconnected, faults, history>>

\* uploadToTwitter throws
UploadThrows(error) ==
  /\ pc = "upload"
  /\ uploadError' = error
  /\ pc' = "catch"
  /\ UNCHANGED <<source, rival, sample, lookup, captions, runs, stream, disk, processedVideos,
                 failedVideos, currentOffset,
                 telegramClient, processedCount, failedCount, videoMessage, videoPath,
                 exitCode, disconnected, faults, history, downloads>>

\* uploadToTwitter returns: the tweet is posted
UploadReturns ==
  /\ pc = "upload"
  /\ LET videoId == VideoIdOf(videoMessage)
     IN tweets' = [v \in DOMAIN tweets \cup {videoId} |->
                     IF v # videoId THEN tweets[v]
                     ELSE IF v \in DOMAIN tweets THEN tweets[v] + 1 ELSE 1]
  /\ tweetText' = tweetTextOf(rewrittenCaption)
  /\ pc' = "mark"
  /\ UNCHANGED <<source, rival, sample, lookup, originalCaption, rewrittenCaption, runs, stream, disk,
                 memory, exitCode, disconnected, faults, everFailed,
                 lastSelected, persisted, publishFailed>>

\* lines 715-718: processedVideos.add, saveProcessedVideos, processedCount++
MarkProcessed(outcome) ==
  /\ pc = "mark"
  /\ outcome # "ok" => faults < MaxFaults
  /\ processedVideos' = SetAdd(processedVideos, VideoIdOf(videoMessage))
  /\ processedFile' = writeFileSync(processedFile, VideosFile(processedVideos'), outcome)
  /\ processedCount' = processedCount + 1
  /\ faults' = IF outcome = "ok" THEN faults ELSE faults + 1
  /\ pc' = "cleanup"
  /\ UNCHANGED <<source, rival, sample, lookup, captions, runs, stream, failedFile, offsetFile,
                 failedVideos, currentOffset,
                 telegramClient, failedCount, videoMessage, videoPath, uploadError,
                 exitCode, disconnected, history, downloads>>

\* the inner catch of run() passing the error on to the outer catch
CatchRethrows(outcome) ==
  /\ pc = "catch"
  /\ videoMessage # 0
  /\ pc' = "critical"
  /\ UNCHANGED <<source, rival, sample, lookup, captions, runs, stream, disk, memory, exitCode,
                 disconnected, faults, history>>

\* the inner catch of run(), with a message: addFailedVideo, failedCount++
CatchWithVideo(outcome) ==
  /\ pc = "catch"
  /\ videoMessage # 0
  /\ outcome # "ok" => faults < MaxFaults
  /\ LET videoId == VideoIdOf(videoMessage)
     IN /\ failedVideos' = SetAdd(failedVideos,
                                  FailureRecord(videoId, failureReason(uploadError),
                                                uploadError))
        /\ everFailed' = everFailed \cup {videoId}
        /\ publishFailed' = IF videoPath THEN publishFailed \cup {videoId}
                                         ELSE publishFailed
  /\ failedFile' = writeFileSync(failedFile, VideosFile(failedVideos'), outcome)
  /\ failedCount' = failedCount + 1
  /\ faults' = IF outcome = "ok" THEN faults ELSE faults + 1
  /\ pc' = "cleanup"
  /\ UNCHANGED <<source, rival, sample, lookup, captions, runs, stream,
                 processedFile, offsetFile, processedVideos, currentOffset,
                 telegramClient, processedCount, videoMessage, videoPath, uploadError,
                 exitCode, disconnected, tweets, lastSelected, persisted, downloads>>

\* the inner catch of run(), videoMessage still null: nothing is recorded
CatchWithoutVideo ==
  /\ pc = "catch"
  /\ videoMessage = 0
  /\ pc' = "cleanup"
  /\ UNCHANGED <<source, rival, sample, lookup, captions, runs, stream, disk,
                 memory, exitCode, disconnected, faults, history>>

\* the inner finally of run(): cleanup(videoPath); the iteration ends and
\* its locals with it
Cleanup ==
  /\ pc = "cleanup"
  /\ calls' = {}
  /\ originalCaption' = <<>>
  /\ rewrittenCaption' = <<>>
  /\ tweetText' = <<>>
  /\ pc' = "loop"
  /\ UNCHANGED <<runs, stream, source, rival, sample, disk, memory, contextMessages, completion,
                 exitCode, disconnected, faults, history>>

\* the outer finally of run(): disconnect; the process ends with code 0
Finally ==
  /\ pc = "finally"
  /\ disconnected' = telegramClient
  /\ ProcessEnds(0)
  /\ UNCHANGED <<source, rival, sample, runs, stream, disk, faults, history>>

\* the process is killed (or the machine stops) at any point of the run
Crash ==
  /\ pc # "idle"
  /\ faults < MaxFaults
  /\ faults' = faults + 1
  /\ ProcessEnds(137)
  /\ UNCHANGED <<source, rival, sample, runs, stream, disk, disconnected, history>>

\* what a completion call does in the runs: it throws or answers "b"
Answers == {[throws |-> TRUE, content |-> <<>>], [throws |-> FALSE, content |-> <<"b">>]}

\* the process is killed (or the machine stops) inside fs.writeFileSync,
\* after the file was opened for writing and truncated: the file is left
\* without parseable JSON
StateFiles == {"processed", "failed", "offset"}

CrashInWrite(file) ==
  /\ faults < MaxFaults
  /\ faults' = faults + 1
  /\ CASE file = "processed" ->
            /\ pc = "mark"
            /\ processedFile' = CorruptFile
            /\ UNCHANGED <<failedFile, offsetFile, everFailed>>
       [] file = "failed" ->
            /\ pc = "catch"
            /\ videoMessage # 0
            /\ failedFile' = CorruptFile
            /\ everFailed' = everFailed \cup {VideoIdOf(videoMessage)}
            /\ UNCHANGED <<processedFile, offsetFile>>
       [] file = "offset" ->
            /\ pc = "find"
            /\ findOldestUnprocessedVideo(stream, currentOffset, processedVideos,
                                          failedVideos) = 0
            /\ offsetFile' = CorruptFile
            /\ UNCHANGED <<processedFile, failedFile, everFailed>>
  /\ ProcessEnds(137)
  /\ UNCHANGED <<source, rival, sample, runs, stream, disconnected, tweets, lastSelected, persisted,
                 publishFailed>>

Next ==
  \/ \E id \in NewIds : AppendVideo(id)
  \/ Start
  \/ Initialize
  \/ \E clientSet \in BOOLEAN : InitializeThrows(clientSet)
  \/ CriticalExit
  \/ LoopTest
  \/ FindThrows
  \/ FindReturns
  \/ \E outcome \in WriteOutcomes : FindExhausted(outcome)
  \/ OwnCaption
  \/ FetchThrows
  \/ \E order \in Orders : FetchContext(order)
  \/ \E answer \in Answers : RankCaption(answer)
  \/ \E answer \in Answers \cup {NoCompletion} : RewriteCaption(answer)
  \/ DownloadTooLarge
  \/ \E error \in DownloadErrors : DownloadThrows(error)
  \/ DownloadReturns
  \/ \E error \in UploadErrors : UploadThrows(error)
  \/ UploadReturns
  \/ \E outcome \in WriteOutcomes : MarkProcessed(outcome)
  \/ \E outcome \in WriteOutcomes : CatchWithVideo(outcome)
  \/ CatchWithoutVideo
  \/ Cleanup
  \/ Finally
  \/ Crash
  \/ \E file \in StateFiles : CrashInWrite(file)

Spec == Init /\ [][Next]_vars

\* Serialized runs in which every external call returns and every write
\* succeeds: the scheduler keeps starting runs, and a started run goes on.
LiveStart ==
  /\ Boot
  /\ UNCHANGED runs

LiveRun ==
  \/ LiveStart
  \/ Initialize
  \/ LoopTest
  \/ FindReturns
  \/ FindExhausted("ok")
  \/ OwnCaption
  \/ FetchThrows
  \/ \E order \in Orders : FetchContext(order)
  \/ \E answer \in Answers : RankCaption(answer)
  \/ \E answer \in Answers \cup {NoCompletion} : RewriteCaption(answer)
  \/ DownloadTooLarge
  \/ \E error \in DownloadErrors : DownloadThrows(error)
  \/ DownloadReturns
  \/ \E error \in UploadErrors : UploadThrows(error)
  \/ UploadReturns
  \/ MarkProcessed("ok")
  \/ CatchWithVideo("ok")
  \/ Cleanup
  \/ Finally

LiveNext ==
  \/ \E id \in NewIds : AppendVideo(id)
  \/ LiveRun

LiveSpec == Init /\ [][LiveNext]_vars /\ WF_vars(LiveRun)

\* The classification of lines 730-756 on its own: uploadToTwitter has just
\* thrown some error for message 1 in the first run of a fresh installation,
\* and the inner catch and finally of run() handle it.
ClassifyInit ==
  /\ stream = {1}
  /\ processedFile = MissingFile
  /\ failedFile = MissingFile
  /\ offsetFile = MissingFile
  /\ pc = "catch"
  /\ processedVideos = <<>>
  /\ failedVideos = <<>>
  /\ currentOffset = 0
  /\ telegramClient = TRUE
  /\ processedCount = 0
  /\ failedCount = 0
  /\ videoMessage = 1
  /\ videoPath = TRUE
  /\ uploadError \in AnyErrors
  /\ downloads = 1
  /\ source = [id \in 1..(batchSize + MaxHigh + 2) |-> GroupMessage(id)]
  /\ sample = NoSample
  /\ rival = NoRival
  /\ contextMessages = <<>>
  /\ completion = NoCompletion
  /\ calls = {}
  /\ originalCaption = <<>>
  /\ rewrittenCaption = <<"a">>
  /\ tweetText = <<>>
  /\ exitCode = -1
  /\ disconnected = FALSE
  /\ faults = 0
  /\ runs = 1
  /\ tweets = [v \in {} |-> 0]
  /\ everFailed = {}
  /\ lastSelected = 1
  /\ persisted = 0
  /\ publishFailed = {}

ClassifyNext ==
  \/ CatchWithVideo("ok")
  \/ Cleanup

ClassifySpec == ClassifyInit /\ [][ClassifyNext]_vars

\* The first start on state files left by an earlier installation: each of
\* the processed file and the failed file is a bare array or an object with
\* metadata, of up to MaxEntries entries; the entries of the failed file are
\* records or bare identifiers (fingerprints, or message ids).
SeqsUpTo(S, n) == UNION {[1..k -> S] : k \in 0..n}

Fingerprints == {VideoIdOf(1), VideoIdOf(batchSize + 1)}

FoundEntries ==
  {LegacyEntry(VideoIdOf(1)), LegacyEntry(ToString(1)),
   FailureRecord(VideoIdOf(1), failureReason(TooLargeError), TooLargeError),
   FailureRecord(VideoIdOf(batchSize + 1), failureReason(TooLargeError), TooLargeError)}

FoundFiles(S) ==
  {ArrayFile(videos) : videos \in SeqsUpTo(S, MaxEntries)}
    \cup {VideosFile(videos) : videos \in SeqsUpTo(S, MaxEntries)}

LoadInit ==
  /\ stream = {1, batchSize + 1}
  /\ processedFile \in FoundFiles(Fingerprints)
  /\ failedFile \in FoundFiles(FoundEntries)
  /\ offsetFile = MissingFile
  /\ source = [id \in 1..(batchSize + MaxHigh + 2) |-> GroupMessage(id)]
  /\ sample = NoSample
  /\ rival = NoRival
  /\ NoProcess
  /\ exitCode = -1
  /\ disconnected = FALSE
  /\ faults = 0
  /\ runs = 0
  /\ tweets = [v \in {} |-> 0]
  /\ everFailed = {}
  /\ lastSelected = 0
  /\ persisted = 0
  /\ publishFailed = {}

LoadNext ==
  \/ LiveStart
  \/ Initialize
  \/ LoopTest
  \/ FindReturns
  \/ FindExhausted("ok")
  \/ Finally

LoadSpec == LoadInit /\ [][LoadNext]_vars

\* The caption resolver on its own: the scanner has just returned message 3
\* in the first run of a fresh installation; the text of the message and
\* the four messages around it are any of the kinds below, and the
\* completion call of findRelevantCaption throws or answers any of the
\* texts below.
OwnTexts == {<<>>, <<" ">>, <<" ", "a", " ">>}

\* a neighbour by its text, its sender and its distance in seconds
NeighbourKinds ==
  {[message |-> <<" ">>, senderId |-> 7, apart |-> 10],
   [message |-> <<"a">>, senderId |-> 7, apart |-> 10],
   [message |-> <<"a", "b">>, senderId |-> 8, apart |-> 10],
   [message |-> <<"b", " ">>, senderId |-> 7, apart |-> 300],
   [message |-> <<>>, senderId |-> 0, apart |-> 0]}

Neighbour(id, kind, video) ==
  IF kind.senderId = 0 THEN Null
  ELSE [id |-> id, message |-> kind.message, senderId |-> kind.senderId,
        date |-> IF id < video.id THEN video.date - kind.apart
                 ELSE video.date + kind.apart]

RankAnswers ==
  {[throws |-> TRUE, content |-> <<>>]}
    \cup {[throws |-> FALSE, content |-> text] :
            text \in {<<>>, NONE, <<"a">>, <<" ", "a", " ">>, <<"\"", "a", "\"">>,
                      <<"'", "a", "b", "'">>, <<"b">>, <<"a", "b", "b">>, <<"\"">>,
                      <<"c">>, <<"\"", "a">>, <<" ">>,
                      <<"'", "N", "O", "N", "E", "'">>}}

CaptionInit ==
  /\ stream = {3}
  /\ videoMessage = 3
  /\ \E own \in OwnTexts :
       \E kinds \in [{1, 2, 4, 5} -> NeighbourKinds] :
         source = [id \in 1..5 |->
                     IF id = 3
                       THEN [id |-> 3, message |-> own, senderId |-> 7,
                             date |-> MessageOf(3).date]
                       ELSE Neighbour(id, kinds[id], MessageOf(3))]
  /\ sample = NoSample
  /\ rival = NoRival
  /\ processedFile = MissingFile
  /\ failedFile = MissingFile
  /\ offsetFile = MissingFile
  /\ pc = "caption"
  /\ processedVideos = <<>>
  /\ failedVideos = <<>>
  /\ currentOffset = 0
  /\ telegramClient = TRUE
  /\ processedCount = 0
  /\ failedCount = 0
  /\ videoPath = FALSE
  /\ uploadError = NoError
  /\ downloads = 0
  /\ contextMessages = <<>>
  /\ completion = NoCompletion
  /\ calls = {}
  /\ originalCaption = <<>>
  /\ rewrittenCaption = <<>>
  /\ tweetText = <<>>
  /\ exitCode = -1
  /\ disconnected = FALSE
  /\ faults = 0
  /\ runs = 1
  /\ tweets = [v \in {} |-> 0]
  /\ everFailed = {}
  /\ lastSelected = 3
  /\ persisted = 0
  /\ publishFailed = {}

CaptionNext ==
  \/ OwnCaption
  \/ FetchThrows
  \/ \E order \in Orders : FetchContext(order)
  \/ \E answer \in RankAnswers : RankCaption(answer)
  \/ \E answer \in Answers \cup {NoCompletion} : RewriteCaption(answer)

CaptionSpec == CaptionInit /\ [][CaptionNext]_vars

\* generateVideoId on its own: two messages of a page, any of their fields
\* missing (0), are given a videoId when the scanner reads them (line 305)
\* and again when run() records an outcome (lines 695, 728).
SampleMessages ==
  {[id |-> id,
    peerId |-> [channelId |-> channelId, chatId |-> chatId, userId |-> userId],
    date |-> date,
    video |-> [size |-> size, duration |-> duration]] :
     id \in {1, 12}, channelId \in {0, 7}, chatId \in {0, 8}, userId \in {0, 9},
     date \in {3, 23}, size \in {0, 4}, duration \in {0, 5}}

FingerprintInit ==
  /\ stream = {1, 12}
  /\ source = [id \in 1..(batchSize + MaxHigh + 2) |-> GroupMessage(id)]
  /\ \E first \in SampleMessages, second \in SampleMessages :
       sample = [messages |-> <<first, second>>, atScan |-> <<>>, atRecord |-> <<>>]
  /\ rival = NoRival
  /\ processedFile = MissingFile
  /\ failedFile = MissingFile
  /\ offsetFile = MissingFile
  /\ pc = "find"
  /\ processedVideos = <<>>
  /\ failedVideos = <<>>
  /\ currentOffset = 0
  /\ telegramClient = TRUE
  /\ processedCount = 0
  /\ failedCount = 0
  /\ videoMessage = 0
  /\ videoPath = FALSE
  /\ uploadError = NoError
  /\ downloads = 0
  /\ contextMessages = <<>>
  /\ completion = NoCompletion
  /\ calls = {}
  /\ originalCaption = <<>>
  /\ rewrittenCaption = <<>>
  /\ tweetText = <<>>
  /\ exitCode = -1
  /\ disconnected = FALSE
  /\ faults = 0
  /\ runs = 1
  /\ tweets = [v \in {} |-> 0]
  /\ everFailed = {}
  /\ lastSelected = 0
  /\ persisted = 0
  /\ publishFailed = {}

\* line 305: the scanner computes the videoIds
ScanSample ==
  /\ sample.atScan = <<>>
  /\ sample' = [sample EXCEPT !.atScan = [k \in 1..Len(sample.messages) |->
                                            generateVideoId(sample.messages[k])]]
  /\ UNCHANGED <<stream, source, rival, disk, pc, memory, lookup, captions, exitCode,
                 disconnected, faults, runs, history>>

\* lines 695 and 728: run() computes them again
RecordSample ==
  /\ sample.atScan # <<>>
  /\ sample.atRecord = <<>>
  /\ sample' = [sample EXCEPT !.atRecord = [k \in 1..Len(sample.messages) |->
                                              generateVideoId(sample.messages[k])]]
  /\ UNCHANGED <<stream, source, rival, disk, pc, memory, lookup, captions, exitCode,
                 disconnected, faults, runs, history>>

FingerprintNext ==
  \/ ScanSample
  \/ RecordSample

FingerprintSpec == FingerprintInit /\ [][FingerprintNext]_vars

\* uploadToTwitter on its own: the video is downloaded and rewriteCaption
\* has returned a caption of any length up to MaxCaption, of letters, of
\* blanks, or of blanks around one letter.
Captions ==
  UNION {{[k \in 1..n |-> "a"],
          [k \in 1..n |-> " "],
          [k \in 1..n |-> IF k = ellipsisAt + 2 THEN "a" ELSE " "]} : n \in 0..MaxCaption}

TweetInit ==
  /\ stream = {1}
  /\ videoMessage = 1
  /\ source = [id \in 1..(batchSize + MaxHigh + 2) |-> GroupMessage(id)]
  /\ sample = NoSample
  /\ rival = NoRival
  /\ processedFile = MissingFile
  /\ failedFile = MissingFile
  /\ offsetFile = MissingFile
  /\ pc = "upload"
  /\ processedVideos = <<>>
  /\ failedVideos = <<>>
  /\ currentOffset = 0
  /\ telegramClient = TRUE
  /\ processedCount = 0
  /\ failedCount = 0
  /\ videoPath = TRUE
  /\ uploadError = NoError
  /\ downloads = 1
  /\ contextMessages = <<>>
  /\ completion = NoCompletion
  /\ calls = {}
  /\ originalCaption = <<>>
  /\ rewrittenCaption \in Captions
  /\ tweetText = <<>>
  /\ exitCode = -1
  /\ disconnected = FALSE
  /\ faults = 0
  /\ runs = 1
  /\ tweets = [v \in {} |-> 0]
  /\ everFailed = {}
  /\ lastSelected = 1
  /\ persisted = 0
  /\ publishFailed = {}

TweetNext == UploadReturns

TweetSpec == TweetInit /\ [][TweetNext]_vars

\* Two processes of the program on the same state files: the runs the
\* scheduler starts one after the other, and one more process started by
\* hand (or by a second scheduler) at any moment. The group holds the
\* videos 1..MaxLow and batchSize + 1 from the beginning.
RaceInit ==
  /\ stream = (1..MaxLow) \cup {batchSize + 1}
  /\ processedFile = MissingFile
  /\ failedFile = MissingFile
  /\ offsetFile = MissingFile
  /\ tweets = [v \in {} |-> 0]
  /\ everFailed = {}
  /\ lastSelected = 0
  /\ source = [id \in 1..(batchSize + MaxHigh + 2) |-> GroupMessage(id)]
  /\ sample = NoSample
  /\ rival = NoRival
  /\ NoProcess
  /\ exitCode = -1
  /\ disconnected = FALSE
  /\ faults = 0
  /\ runs = 0
  /\ persisted = 0
  /\ publishFailed = {}

\* the second process and a run of the scheduler have been alive together
Overlaps == rival.overlapped \/ pc # "idle" \/ runs # rival.runs

\* the constructor of the second process: the three load functions
RivalBoot ==
  /\ rival.pc = "absent"
  /\ rival' = [pc |-> "find",
               processedVideos |-> loadProcessedVideos(processedFile),
               failedVideos |-> loadFailedVideos(failedFile),
               currentOffset |-> loadOffset(offsetFile),
               videoMessage |-> 0, videoPath |-> FALSE, uploadError |-> NoError,
               runs |-> runs, overlapped |-> pc # "idle"]
  /\ UNCHANGED <<stream, source, sample, disk, pc, memory, lookup, captions, exitCode,
                 disconnected, faults, runs, history>>

\* findOldestUnprocessedVideo returns a message to the second process
RivalFindReturns ==
  /\ rival.pc = "find"
  /\ LET found == findOldestUnprocessedVideo(stream, rival.currentOffset,
                                             rival.processedVideos, rival.failedVideos)
     IN /\ found # 0
        /\ rival' = [rival EXCEPT !.pc = "publish", !.videoMessage = found,
                                  !.overlapped = Overlaps]
  /\ UNCHANGED <<stream, source, sample, disk, pc, memory, lookup, captions, exitCode,
                 disconnected, faults, runs, history>>

\* the second process finds the page exhausted: saveOffset, return null
RivalFindExhausted(outcome) ==
  /\ rival.pc = "find"
  /\ findOldestUnprocessedVideo(stream, rival.currentOffset, rival.processedVideos,
                                rival.failedVideos) = 0
  /\ rival.currentOffset + batchSize <= MaxBatches * batchSize
  /\ outcome # "ok" => faults < MaxFaults
  /\ LET newOffset == rival.currentOffset + batchSize
     IN /\ offsetFile' = writeFileSync(offsetFile, OffsetFile(newOffset), outcome)
        /\ rival' = [rival EXCEPT !.pc = "finally",
                                  !.currentOffset =
                                     saveOffsetMemory(rival.currentOffset, newOffset,
                                                      outcome),
                                  !.overlapped = Overlaps]
        /\ persisted' = IF outcome = "ok" /\ newOffset > persisted THEN newOffset
                        ELSE persisted
  /\ faults' = IF outcome = "ok" THEN faults ELSE faults + 1
  /\ UNCHANGED <<stream, source, sample, processedFile, failedFile, pc, memory, lookup,
                 captions, exitCode, disconnected, runs, tweets, everFailed,
                 lastSelected, publishFailed>>

\* the second process: the captions are made, downloadVideo refuses the size
RivalDownloadTooLarge ==
  /\ rival.pc = "publish"
  /\ ~WithinSizeLimit(rival.videoMessage)
  /\ rival' = [rival EXCEPT !.pc = "catch", !.uploadError = TooLargeError,
                            !.overlapped = Overlaps]
  /\ UNCHANGED <<stream, source, sample, disk, pc, memory, lookup, captions, exitCode,
                 disconnected, faults, runs, history>>

\* the second process: the video is downloaded, uploadToTwitter throws
RivalUploadThrows(error) ==
  /\ rival.pc = "publish"
  /\ WithinSizeLimit(rival.videoMessage)
  /\ rival' = [rival EXCEPT !.pc = "catch", !.videoPath = TRUE, !.uploadError = error,
                            !.overlapped = Overlaps]
  /\ UNCHANGED <<stream, source, sample, disk, pc, memory, lookup, captions, exitCode,
                 disconnected, faults, runs, history>>

\* the second process: the video is downloaded, the tweet is posted
RivalUploadReturns ==
  /\ rival.pc = "publish"
  /\ WithinSizeLimit(rival.videoMessage)
  /\ LET videoId == VideoIdOf(rival.videoMessage)
     IN tweets' = [v \in DOMAIN tweets \cup {videoId} |->
                     IF v # videoId THEN tweets[v]
                     ELSE IF v \in DOMAIN tweets THEN tweets[v] + 1 ELSE 1]
  /\ rival' = [rival EXCEPT !.pc = "mark", !.videoPath = TRUE, !.overlapped = Overlaps]
  /\ UNCHANGED <<stream, source, sample, disk, pc, memory, lookup, captions, exitCode,
                 disconnected, faults, runs, everFailed, lastSelected, persisted,
                 publishFailed>>

\* MarkProcessed with a file that takes the new videoId alone
RivalMarkProcessedAlone(outcome) ==
  /\ rival.pc = "mark"
  /\ outcome # "ok" => faults < MaxFaults
  /\ LET videos == SetAdd(rival.processedVideos, VideoIdOf(rival.videoMessage))
     IN /\ processedFile' = writeFileSync(processedFile,
                                          VideosFile(<<VideoIdOf(rival.videoMessage)>>),
                                          outcome)
        /\ rival' = [rival EXCEPT !.pc = "finally", !.processedVideos = videos,
                                  !.overlapped = Overlaps]
  /\ faults' = IF outcome = "ok" THEN faults ELSE faults + 1
  /\ UNCHANGED <<stream, source, sample, failedFile, offsetFile, pc, memory, lookup,
                 captions, exitCode, disconnected, runs, history>>

\* the second process, lines 715-718: processedVideos.add and
\* saveProcessedVideos, which writes the whole set it holds
RivalMarkProcessed(outcome) ==
  /\ rival.pc = "mark"
  /\ outcome # "ok" => faults < MaxFaults
  /\ LET videos == SetAdd(rival.processedVideos, VideoIdOf(rival.videoMessage))
     IN /\ processedFile' = writeFileSync(processedFile, VideosFile(videos), outcome)
        /\ rival' = [rival EXCEPT !.pc = "finally", !.processedVideos = videos,
                                  !.overlapped = Overlaps]
  /\ faults' = IF outcome = "ok" THEN faults ELSE faults + 1
  /\ UNCHANGED <<stream, source, sample, failedFile, offsetFile, pc, memory, lookup,
                 captions, exitCode, disconnected, runs, history>>

\* the second process, the inner catch of run(): addFailedVideo, which
\* writes the whole set it holds
RivalCatch(outcome) ==
  /\ rival.pc = "catch"
  /\ outcome # "ok" => faults < MaxFaults
  /\ LET videoId == VideoIdOf(rival.videoMessage)
         videos == SetAdd(rival.failedVideos,
                          FailureRecord(videoId, failureReason(rival.uploadError),
                                        rival.uploadError))
     IN /\ failedFile' = writeFileSync(failedFile, VideosFile(videos), outcome)
        /\ rival' = [rival EXCEPT !.pc = "finally", !.failedVideos = videos,
                                  !.overlapped = Overlaps]
        /\ everFailed' = everFailed \cup {videoId}
        /\ publishFailed' = IF rival.videoPath THEN publishFailed \cup {videoId}
                                               ELSE publishFailed
  /\ faults' = IF outcome = "ok" THEN faults ELSE faults + 1
  /\ UNCHANGED <<stream, source, sample, processedFile, offsetFile, pc, memory, lookup,
                 captions, exitCode, disconnected, runs, tweets, lastSelected,
                 persisted>>

\* the second process leaves the loop (maxVideosPerRun is reached or the
\* scanner returned null) and ends
RivalFinally ==
  /\ rival.pc = "finally"
  /\ rival' = [rival EXCEPT !.pc = "done", !.overlapped = Overlaps]
  /\ UNCHANGED <<stream, source, sample, disk, pc, memory, lookup, captions, exitCode,
                 disconnected, faults, runs, history>>

RaceNext ==
  \/ Start
  \/ Initialize
  \/ LoopTest
  \/ FindReturns
  \/ \E outcome \in WriteOutcomes : FindExhausted(outcome)
  \/ OwnCaption
  \/ FetchThrows
  \/ \E answer \in {NoCompletion} : RewriteCaption(answer)
  \/ DownloadTooLarge
  \/ DownloadReturns
  \/ \E error \in UploadErrors : UploadThrows(error)
  \/ UploadReturns
  \/ \E outcome \in WriteOutcomes : MarkProcessed(outcome)
  \/ \E outcome \in WriteOutcomes : CatchWithVideo(outcome)
  \/ Cleanup
  \/ Finally
  \/ RivalBoot
  \/ RivalFindReturns
  \/ \E outcome \in WriteOutcomes : RivalFindExhausted(outcome)
  \/ RivalDownloadTooLarge
  \/ \E error \in UploadErrors : RivalUploadThrows(error)
  \/ RivalUploadReturns
  \/ \E outcome \in WriteOutcomes : RivalMarkProcessed(outcome)
  \/ \E outcome \in WriteOutcomes : RivalCatch(outcome)
  \/ RivalFinally

RaceSpec == RaceInit /\ [][RaceNext]_vars

\* ------------------------------------------------------------- claims
\* the videoId of the message the run holds
videoId == VideoIdOf(videoMessage)

\* the scanner has just returned videoMessage
Returned == pc = "caption"

\* the videos of the group that are neither in ProcessedSet nor in FailedSet
Unresolved == {id \in stream : ~skips(VideoIdOf(id), processedVideos, failedVideos)}

\* C1: the message the scanner returns is never one whose videoId is in
\* processedVideos or for which isVideoFailed is true.
C1_NeverReturnsResolved ==
  Returned => /\ videoId \notin Range(processedVideos)
              /\ ~isVideoFailed(videoId, failedVideos)

\* the scanner returned a message after skipping an older processed one and
\* an older failed one of the same page
C1_Witness ==
  /\ Returned
  /\ \E id \in iterMessages(stream, currentOffset) :
       id < videoMessage /\ VideoIdOf(id) \in Range(processedVideos)
  /\ \E id \in iterMessages(stream, currentOffset) :
       id < videoMessage /\ isVideoFailed(VideoIdOf(id), failedVideos)

\* C2: whenever the scanner returns a message, it is the oldest video of the
\* whole group that is neither processed nor failed.
C2_ReturnsOldestOfStream == Returned => videoMessage = Min(Unresolved)

\* the page test of the scanner: no message of the page is left to return
PageExhausted ==
  /\ pc = "find"
  /\ findOldestUnprocessedVideo(stream, currentOffset, processedVideos, failedVideos) = 0

\* the scanner has returned (it did not throw, the process was not killed)
ScanReturns == pc' \notin {"find", "catch", "idle"}

C5_OffsetMonotonic ==
  /\ pc # "idle" => currentOffset >= persisted
  /\ offsetFile.shape = "object" => offsetFile.offset >= persisted

\* C6: no videoId is published more than once.
C6_PublishedOnce == \A v \in DOMAIN tweets : tweets[v] <= 1

\* C7: a message whose videoId addFailedVideo has recorded is never selected,
\* downloaded or published by a later run.
C7_FailedNeverRetried ==
  pc \in {"caption", "download", "upload", "mark"} => videoId \notin everFailed

\* C8: a run hands at most one video to download / publish and records at
\* most one outcome.
C8_OnePerRun == processedCount + failedCount <= 1 /\ downloads <= 1

\* a run ends with one outcome recorded and one download while the page
\* still holds a message the scanner would return
C8_Witness ==
  /\ pc = "finally"
  /\ processedCount + failedCount = 1
  /\ downloads = 1
  /\ findOldestUnprocessedVideo(stream, currentOffset, processedVideos, failedVideos) # 0

\* C9: the ids of the messages selected by successive runs are strictly
\* increasing.
C9_SelectionIncreasing ==
  [][pc = "find" /\ pc' = "caption" => videoMessage' > lastSelected]_vars

\* the video is recorded in the processed file or in the failed file
ResolvedOnDisk(id) ==
  \/ VideoIdOf(id) \in Range(loadProcessedVideos(processedFile))
  \/ isVideoFailed(VideoIdOf(id), loadFailedVideos(failedFile))

CaughtRecord == FailureRecord(videoId, failureReason(uploadError), uploadError)

\* C10: when the publish step throws for the selected message, failedVideos
\* gains exactly one record, with its videoId and the classified reason (the
\* duration reason for "video longer than"), processedVideos is unchanged,
\* and isVideoFailed is true for that videoId from then on, in this process
\* and in every later one (after the failed file is loaded again).
C10_PublishFailureRecorded ==
  /\ [][pc = "catch" /\ videoPath /\ pc' = "cleanup" =>
          /\ failedVideos' = Append(failedVideos, CaughtRecord)
          /\ Includes(uploadError.message, "video longer than")
               => CaughtRecord.reason = "Video too long (>2 minutes)"
          /\ processedVideos' = processedVideos
          /\ isVideoFailed(videoId, failedVideos')]_vars
  /\ [][\A v \in publishFailed :
          pc' \notin {"idle", "critical"} => isVideoFailed(v, failedVideos')]_vars

\* the rules of the failure classification, by category
Matches(rule, error) ==
  CASE rule = "duration" -> Includes(error.message, "video longer than")
    [] rule = "size" -> Includes(error.message, "too large")
                        \/ Includes(error.message, "file size")
    [] rule = "forbidden" -> Includes(error.message, "Forbidden") \/ error.code = 403
    [] rule = "format" -> Includes(error.message, "format")
                          \/ Includes(error.message, "codec")
    [] rule = "rate" -> error.code = 429
    [] rule = "client" -> error.code >= 400 /\ error.code < 500
    [] rule = "server" -> error.code >= 500
    [] rule = "unknown" -> TRUE

ReasonOf(rule, error) ==
  CASE rule = "duration" -> "Video too long (>2 minutes)"
    [] rule = "size" -> "Video file too large"
    [] rule = "forbidden" -> "Twitter API forbidden (video restrictions)"
    [] rule = "format" -> "Unsupported video format"
    [] rule = "rate" -> "Rate limit exceeded"
    [] rule = "client" -> "Client error: " \o ToString(error.code)
    [] rule = "server" -> "Server error: " \o ToString(error.code)
    [] rule = "unknown" -> "Unknown upload error"

\* the category of the first rule of the order that matches the error
FirstMatch(order, error) ==
  LET first == Min({i \in 1..Len(order) : Matches(order[i], error)})
  IN ReasonOf(order[first], error)

\* the record the inner catch has just added
Recorded == pc = "cleanup" /\ failedCount = 1

LastFailed == failedVideos[Len(failedVideos)]

\* C11 as stated: the recorded category is the first that matches in the
\* order duration, size, forbidden, format, rate limit, 4xx, 5xx, unknown.
C11_SizeBeforeForbidden ==
  Recorded =>
    LastFailed.reason =
      FirstMatch(<<"duration", "size", "forbidden", "format", "rate", "client",
                   "server", "unknown">>, uploadError)

\* C11 amended: the recorded category is the first that matches in the
\* order duration, forbidden, size, format, rate limit, 4xx, 5xx, unknown.
C11_ForbiddenBeforeSize ==
  Recorded =>
    LastFailed.reason =
      FirstMatch(<<"duration", "forbidden", "size", "format", "rate", "client",
                   "server", "unknown">>, uploadError)

\* an error that matches the size rule and the forbidden rule was recorded
C11_Witness ==
  /\ Recorded
  /\ Matches("size", uploadError)
  /\ Matches("forbidden", uploadError)
  /\ ~Matches("duration", uploadError)
  /\ LastFailed.reason = "Twitter API forbidden (video restrictions)"

\* C12: when initialization against the message source throws (the client
\* exists), telegramClient.disconnect() is called before the process ends
\* with exit code 1.
C12_DisconnectBeforeAbort ==
  [][pc = "critical" /\ telegramClient /\ exitCode' = 1 => disconnected']_vars

\* C13: a run in which download or publish throws for the selected message
\* (caption resolution and rewriting recover by themselves) records the
\* failure and ends without process.exit(1); exit code 1 comes only from the
\* outer catch, reached only when initialize() throws.
C13_OnlyCriticalExitsNonZero ==
  /\ [][pc = "catch" /\ videoMessage # 0 /\ pc' # "idle" =>
          /\ pc' = "cleanup"
          /\ failedCount' = failedCount + 1
          /\ isVideoFailed(videoId, failedVideos')]_vars
  /\ [][pc # "idle" /\ failedCount = 1 /\ pc' = "idle" => exitCode' # 1]_vars
  /\ [][pc # "idle" /\ pc' = "idle" /\ exitCode' = 1 =>
          pc = "critical" /\ videoMessage = 0 /\ failedCount = 0]_vars

\* the first run had a publish failure, recorded it and ended with code 0
C13_Witness ==
  /\ pc = "idle"
  /\ runs = 1
  /\ exitCode = 0
  /\ publishFailed # {}
  /\ \A v \in publishFailed : isVideoFailed(v, loadFailedVideos(failedFile))

\* C14: after saveProcessedVideos has written the set, the file holds
\* exactly its members, and a process started on such a file loads a set
\* with exactly the members the file holds.
C14_ProcessedRoundTrip ==
  /\ [][pc = "mark" /\ pc' = "cleanup" /\ faults' = faults =>
          Range(loadProcessedVideos(processedFile')) = Range(processedVideos')]_vars
  /\ [][pc = "idle" /\ pc' = "initialize" /\ processedFile.shape = "object" =>
          Range(processedVideos') = Range(processedFile.videos)]_vars

\* a later process has loaded the two fingerprints an earlier one saved
C14_Witness ==
  /\ pc = "initialize"
  /\ runs > 1
  /\ processedFile.shape = "object"
  /\ Len(processedVideos) > 1
  /\ Range(processedVideos) = Range(processedFile.videos)
  /\ \A v \in Range(processedVideos) : v \in DOMAIN tweets

\* the same identifiers in the other shape of the file
OtherShape(file) ==
  IF file.shape = "array" THEN VideosFile(file.videos) ELSE ArrayFile(file.videos)

\* C15: the set a process loads from a processed file or a failed file has
\* the members that loading the same identifiers in the other shape (bare
\* array / object with metadata) gives.
C15_LegacyLoadsAlike ==
  pc = "initialize" =>
    /\ Range(processedVideos) = Range(loadProcessedVideos(OtherShape(processedFile)))
    /\ Range(processedVideos) = Range(processedFile.videos)
    /\ Range(failedVideos) = Range(loadFailedVideos(OtherShape(failedFile)))
    /\ Range(failedVideos) = Range(failedFile.videos)

\* a process loaded a bare array with a repeated identifier, and records
\* from an object with metadata
C15_Witness ==
  /\ pc = "initialize"
  /\ processedFile.shape = "array"
  /\ Len(processedFile.videos) > Len(processedVideos)
  /\ failedFile.shape = "object"
  /\ Len(failedVideos) > 1

\* C16: for a failed set mixing bare identifiers and records, isVideoFailed
\* of a fingerprint is true exactly when some entry is the bare fingerprint
\* or a record with that videoId.
C16_ChecksBothEncodings ==
  pc # "idle" =>
    \A fp \in Fingerprints :
      isVideoFailed(fp, failedVideos) <=>
        \E i \in 1..Len(failedVideos) : failedVideos[i].videoId = fp

\* the scanner skipped message 1 for a bare identifier and returned the
\* next one, with a record for another message in the same set
C16_Witness ==
  /\ Returned
  /\ videoMessage = batchSize + 1
  /\ VideoIdOf(1) \notin Range(processedVideos)
  /\ LegacyEntry(VideoIdOf(1)) \in Range(failedVideos)
  /\ \E i \in 1..Len(failedVideos) : failedVideos[i].json

\* C17: a process started on a missing or unreadable processed, failed or
\* cursor file starts with the empty set (offset 0) for it and goes on to
\* initialize and scan: the load never ends the run.
Unreadable(file) == file.shape \in {"missing", "corrupt"}

C17_ReadFailureNotFatal ==
  [][pc = "idle" /\ pc' # "idle" =>
       /\ pc' = "initialize"
       /\ exitCode' = -1
       /\ Unreadable(processedFile) => processedVideos' = <<>>
       /\ Unreadable(failedFile) => failedVideos' = <<>>
       /\ Unreadable(offsetFile) => currentOffset' = 0]_vars

\* a run scans with offset 0 after a torn write left the cursor file
\* unreadable, the processed file still missing
C17_Witness ==
  /\ pc = "find"
  /\ currentOffset = 0
  /\ offsetFile = CorruptFile
  /\ processedFile = MissingFile

\* the entries a restarted process would load
LoadedProcessed == Range(loadProcessedVideos(processedFile))

LoadedFailed == Range(loadFailedVideos(failedFile))

\* C18: when the process is killed, between or during the writes of the
\* state files, a restart loads every entry the processed file and the
\* failed file held before the last write began.
C18_CrashKeepsEarlierEntries ==
  [][pc # "idle" /\ pc' = "idle" /\ exitCode' = 137 =>
       /\ LoadedProcessed \subseteq LoadedProcessed'
       /\ LoadedFailed \subseteq LoadedFailed']_vars

\* C19: a fingerprint recorded in the processed file is in every later
\* version of the file.
C19_ProcessedAppendOnly ==
  [][LoadedProcessed \subseteq LoadedProcessed']_vars

\* C20: no fingerprint is in processedVideos and the videoId of an entry of
\* failedVideos at once, in the memory of a process or in the two files.
C20_ProcessedFailedDisjoint ==
  /\ \A v \in Range(processedVideos) : ~isVideoFailed(v, failedVideos)
  /\ \A v \in LoadedProcessed : ~isVideoFailed(v, loadFailedVideos(failedFile))

\* a run that loaded a failed record has published another video: both
\* sets hold entries, in memory and on disk
C20_Witness ==
  /\ pc = "cleanup"
  /\ processedCount = 1
  /\ Len(failedVideos) > 0
  /\ videoId \in LoadedProcessed
  /\ LoadedFailed # {}
  /\ stream \subseteq NewIds

\* extractVideoCaption has returned
CaptionReturned == pc = "rewrite"

\* the messages around the candidate that the source has
NeighbourIds ==
  {id \in Range(messageIds(videoMessage)) : id # videoMessage /\ At(id) # Null}

\* C21: when the message has non-blank text of its own, extractVideoCaption
\* returns that text trimmed and makes no lookup: no fetch of the window,
\* no ranking call, no fallback.
C21_OwnTextWins ==
  CaptionReturned /\ trim(Video.message) # <<>> =>
    /\ originalCaption = trim(Video.message)
    /\ calls = {}
    /\ contextMessages = <<>>

\* the message has text of its own with blanks around it, and neighbours
\* with text
C21_Witness ==
  /\ CaptionReturned
  /\ originalCaption = <<"a">>
  /\ Video.message # originalCaption
  /\ \A id \in {videoMessage - 1, videoMessage + 1} :
        At(id) # Null /\ trim(At(id).message) # <<>>

\* C22: every non-empty text extractVideoCaption returns is the trimmed
\* text of the message itself or the trimmed text of one of the messages
\* around it.
C22_NeverInvents ==
  CaptionReturned /\ originalCaption # <<>> =>
    \/ originalCaption = trim(Video.message)
    \/ \E id \in NeighbourIds : originalCaption = trim(At(id).message)

\* the answer of the ranking call after trimming and stripping quotes
Stripped == stripQuotes(trim(completion.content))

\* some message around the candidate has a text that equals the answer,
\* contains it or is contained in it
AnswerMatches ==
  \E id \in NeighbourIds :
    LET text == trim(At(id).message)
    IN /\ text # <<>>
       /\ \/ text = Stripped
          \/ includes(text, Stripped)
          \/ includes(Stripped, text)

\* the ranking call was made
Ranked == CaptionReturned /\ "completions.create" \in calls

\* the ranking call threw, or its answer failed validation
RankingFailed ==
  /\ Ranked
  /\ \/ completion.throws
     \/ Stripped # <<>> /\ Stripped # NONE /\ ~AnswerMatches

\* the neighbours with text, of the sender of the candidate, less than 300
\* seconds from it
Qualifying ==
  {id \in NeighbourIds :
     /\ trim(At(id).message) # <<>>
     /\ At(id).senderId = Video.senderId
     /\ At(id).date - Video.date < 300
     /\ Video.date - At(id).date < 300}

\* C23: when the ranking call throws or its answer fails validation, the
\* resolver returns the text of the qualifying neighbour of lowest id, and
\* the empty text when none qualifies.
C23_HeuristicFallback ==
  RankingFailed =>
    originalCaption = IF Qualifying = {} THEN <<>>
                      ELSE trim(At(Min(Qualifying)).message)

\* the answer failed validation and the fallback passed over a neighbour of
\* the same sender 300 seconds away for a later one
C23_Witness ==
  /\ RankingFailed
  /\ ~completion.throws
  /\ Qualifying # {}
  /\ \E id \in NeighbourIds :
        /\ id < Min(Qualifying)
        /\ At(id).senderId = Video.senderId
        /\ trim(At(id).message) # <<>>
  /\ originalCaption = <<"a">>

\* C24: a non-empty answer other than NONE (quotes stripped) is accepted,
\* that is returned without the fallback, exactly when it matches a
\* message of the window; otherwise the fallback is used.
C24_AnswerValidated ==
  Ranked /\ ~completion.throws /\ Stripped # <<>> /\ Stripped # NONE =>
    /\ AnswerMatches <=> (originalCaption = Stripped /\ "fallback" \notin calls)
    /\ ~AnswerMatches <=> "fallback" \in calls

\* a quoted answer was accepted because a neighbour's text is contained in it
C24_Witness ==
  /\ Ranked
  /\ completion.content # Stripped
  /\ originalCaption = Stripped
  /\ \E id \in NeighbourIds : trim(At(id).message) # <<>>
  /\ \A id \in NeighbourIds :
        LET text == trim(At(id).message)
        IN text # <<>> => text # Stripped /\ ~includes(text, Stripped)

\* C25: the window never holds the candidate's own id nor an entry with
\* blank text, is in ascending order of id, and tags an entry 'before'
\* exactly when its id is below the candidate's, 'after' otherwise.
C25_WindowWellFormed ==
  /\ \A i \in 1..Len(contextMessages) :
        /\ contextMessages[i].id # videoMessage
        /\ trim(contextMessages[i].text) # <<>>
        /\ contextMessages[i].position =
             (IF contextMessages[i].id < videoMessage THEN "before" ELSE "after")
  /\ \A i, j \in 1..Len(contextMessages) :
        i < j => contextMessages[i].id < contextMessages[j].id

\* a window with entries on both sides of the candidate, a blank neighbour
\* having been left out
C25_Witness ==
  /\ pc = "rank"
  /\ Len(contextMessages) > 2
  /\ Len(contextMessages) < Cardinality(NeighbourIds)
  /\ contextMessages[1].position = "before"
  /\ contextMessages[Len(contextMessages)].position = "after"

\* C26: when the fetch of the context messages throws, extractVideoCaption
\* returns the empty text, nothing is recorded as failed for it, and the
\* run goes on to rewriteCaption, the download and the upload: the caption
\* steps never lead to the catch block.
C26_FetchFailureNotFatal ==
  /\ [][pc' # "idle" /\ pc \in {"caption", "rank", "rewrite"} =>
          /\ pc' \in {"rank", "rewrite", "download"}
          /\ failedVideos' = failedVideos
          /\ failedCount' = failedCount]_vars
  /\ [][pc = "caption" /\ "getMessages throws" \in calls' =>
          originalCaption' = <<>> /\ pc' = "rewrite"]_vars

\* the video was published after the fetch of its context had thrown
C26_Witness ==
  /\ pc = "mark"
  /\ "getMessages throws" \in calls
  /\ failedCount = 0
  /\ ~isVideoFailed(videoId, failedVideos)

\* the peer identifier of a message after the substitution of the sentinel
PeerOf(message) ==
  IF message.peerId.channelId # 0 THEN ToString(message.peerId.channelId)
  ELSE IF message.peerId.chatId # 0 THEN ToString(message.peerId.chatId)
  ELSE IF message.peerId.userId # 0 THEN ToString(message.peerId.userId)
  ELSE "unknown"

NoPeer(message) ==
  message.peerId.channelId = 0 /\ message.peerId.chatId = 0 /\ message.peerId.userId = 0

PartsOf(message) ==
  <<PeerOf(message), message.id, message.date, message.video.size,
    message.video.duration>>

\* C30: two messages that differ in one of peer identifier, message id,
\* date, video size and video duration (sentinels substituted) have
\* different videoIds.
C30_NoCollision ==
  sample.atScan # <<>> =>
    (PartsOf(sample.messages[1]) # PartsOf(sample.messages[2])
       => sample.atScan[1] # sample.atScan[2])

\* messages 1 of date 23 and 12 of date 3, alike otherwise, have different
\* videoIds
C30_Witness ==
  /\ sample.atScan # <<>>
  /\ sample.messages[1].id = 1 /\ sample.messages[1].date = 23
  /\ sample.messages[2].id = 12 /\ sample.messages[2].date = 3
  /\ sample.messages[1].peerId = sample.messages[2].peerId
  /\ sample.messages[1].video = sample.messages[2].video
  /\ sample.atScan[1] # sample.atScan[2]

\* C29: the text handed to the publish call has at most 280 characters and
\* is not blank; a caption of more than 280 characters is handed over as its
\* first 277 characters and "...", a blank caption as the default text.
C29_TweetTextBounded ==
  pc = "mark" =>
    /\ Len(tweetText) <= 280
    /\ \E k \in 1..Len(tweetText) : tweetText[k] # " "
    /\ Len(rewrittenCaption) > 280 =>
         /\ Len(tweetText) = 280
         /\ \A k \in 1..277 : tweetText[k] = rewrittenCaption[k]
         /\ \A k \in 278..280 : tweetText[k] = "."
    /\ (\A k \in 1..Len(rewrittenCaption) : rewrittenCaption[k] = " ")
         /\ Len(rewrittenCaption) <= 280
         => tweetText = VideoFromTelegram
    /\ (\E k \in 1..Len(rewrittenCaption) : rewrittenCaption[k] # " ")
         /\ Len(rewrittenCaption) <= 280
         => tweetText = rewrittenCaption

\* a caption of 281 blanks was published as 277 blanks and "..."
C29_Witness ==
  /\ pc = "mark"
  /\ Len(rewrittenCaption) = 281
  /\ \A k \in 1..281 : rewrittenCaption[k] = " "
  /\ Len(tweetText) = 280
  /\ tweetText[277] = " " /\ tweetText[278] = "."

\* no process is alive
Quiescent == pc = "idle" /\ rival.pc \in {"absent", "done"}

\* the records the processes have written are in the files
NoRecordLost ==
  /\ \A v \in DOMAIN tweets : v \in Range(loadProcessedVideos(processedFile))
  /\ \A v \in everFailed : isVideoFailed(v, loadFailedVideos(failedFile))

\* C28: when the processes have run one after the other and every write
\* succeeded, the files hold every processed and every failed record that
\* was written; a process that is alive together with another can leave the
\* files without a record the other has written (the witness).
C28_SerializedRunsKeepRecords ==
  Quiescent /\ ~rival.overlapped /\ faults = 0 => NoRecordLost

\* the second process loaded the empty set and took message 1; the runs of
\* the scheduler posted messages 1 and batchSize + 1 and recorded them; the
\* second process then wrote its own set, and the record of batchSize + 1
\* is gone from the file, every write having succeeded
C28_Witness ==
  /\ Quiescent
  /\ rival.overlapped
  /\ faults = 0
  /\ rival.videoMessage = 1
  /\ VideoIdOf(batchSize + 1) \in DOMAIN tweets
  /\ VideoIdOf(batchSize + 1) \notin Range(loadProcessedVideos(processedFile))

\* the scan of an earlier iteration of this run threw before a message was
\* selected: the inner catch still holds its error and no video is counted
ScanThrewBefore ==
  /\ uploadError # NoError
  /\ videoMessage = 0
  /\ processedCount + failedCount = 0

\* C31: the loop of run() ends after the iteration in which
\* findOldestUnprocessedVideo threw: the run does not enter the loop body
\* again.
C31_LoopExitsWhenScanThrows ==
  [][ScanThrewBefore /\ pc = "loop" => pc' # "find"]_vars

\* C32: a scan that returns a message leaves the offset, in memory and in
\* the file, and both sets, in memory and in their files, as they were; the
\* offset file is written only by a scan that finds its page exhausted, and
\* the offset in memory changes only there, when the constructor loads it
\* and when the process ends.
C32_ScanFrame ==
  [][/\ (pc' = "caption" /\ pc = "find") =>
          /\ currentOffset' = currentOffset
          /\ offsetFile' = offsetFile
          /\ processedVideos' = processedVideos
          /\ failedVideos' = failedVideos
          /\ processedFile' = processedFile
          /\ failedFile' = failedFile
     /\ offsetFile' # offsetFile => PageExhausted
     /\ currentOffset' # currentOffset =>
          PageExhausted \/ pc = "idle" \/ pc' = "idle"]_vars

\* the scan has returned message batchSize + 1 with the offset at batchSize,
\* in memory and in the file
C32_Witness ==
  /\ pc = "caption"
  /\ videoMessage = batchSize + 1
  /\ currentOffset = batchSize
  /\ offsetFile = OffsetFile(batchSize)

\* C33: a videoId enters processedVideos of a running process only in the
\* iteration for its message, after uploadToTwitter has returned in that
\* iteration (the tweet text was handed over and the tweet is counted).
C33_ProcessedAfterPublish ==
  [][pc # "idle" =>
       \A v \in Range(processedVideos') \ Range(processedVideos) :
          /\ pc = "mark"
          /\ videoMessage # 0
          /\ v = VideoIdOf(videoMessage)
          /\ tweetText # <<>>
          /\ v \in DOMAIN tweets
          /\ tweets[v] >= 1]_vars

\* a process that loaded batchSize - 1 videoIds has posted message
\* batchSize + 1 and added its videoId
C33_Witness ==
  /\ pc = "cleanup"
  /\ processedCount = 1
  /\ videoMessage = batchSize + 1
  /\ Len(processedVideos) = batchSize
  /\ VideoIdOf(batchSize + 1) \in Range(processedVideos)
  /\ VideoIdOf(batchSize + 1) \in DOMAIN tweets

\* videoIds recorded as failed for an error raised before uploadToTwitter
\* was called
FailedBeforePublish == everFailed \ publishFailed

\* C34: an error caught by the inner catch of run() with a message selected,
\* whether downloadVideo or uploadToTwitter threw it, adds the failure record
\* of the message and counts it; and no later scan returns a message whose
\* videoId was recorded for an error raised before the upload.
C34_EarlyFailureIsTerminal ==
  [][/\ (pc' = "cleanup" /\ pc = "catch" /\ videoMessage # 0) =>
          /\ failedVideos' =
               SetAdd(failedVideos,
                      FailureRecord(VideoIdOf(videoMessage), failureReason(uploadError),
                                    uploadError))
          /\ isVideoFailed(VideoIdOf(videoMessage), failedVideos')
          /\ failedCount' = failedCount + 1
          /\ processedVideos' = processedVideos
     /\ (pc' = "caption" /\ pc = "find") =>
          VideoIdOf(videoMessage') \notin FailedBeforePublish]_vars

\* the ranking call answered NONE or nothing, quotes and blanks apart
AnsweredNone ==
  /\ Ranked
  /\ ~completion.throws
  /\ \/ Stripped = <<"N", "O", "N", "E">>
     \/ Stripped = <<>>

\* C35: when the ranking call answers NONE or an empty text (after the
\* quotes are stripped), the resolver returns the empty text and makes no
\* fallback lookup, whatever the window holds.
C35_NoneSkipsFallback ==
  AnsweredNone =>
    /\ originalCaption = <<>>
    /\ "fallback" \notin calls

\* the answer was 'NONE' in quotes while a neighbour of the same sender,
\* less than 300 seconds away, had a text
C35_Witness ==
  /\ AnsweredNone
  /\ Len(completion.content) = 6
  /\ Qualifying # {}
  /\ originalCaption = <<>>

====
